---- MODULE Spec2Model ----
(***************************************************************************)
(* The desk controller of sven-esp32: SvenState (src/src/sven_state.rs)    *)
(* driving two PulsePin outputs (src/src/gpio.rs).                         *)
(*                                                                         *)
(* The controller runs on one cooperative task.  Its only suspension       *)
(* points are the Timer awaits inside PulsePin::pulse and inside the       *)
(* relative-move loops, so one action of the model is the code executed    *)
(* between two awaits (or between two reads of the controller's fields).   *)
(*                                                                         *)
(* A u32 number of milliseconds is kept as the record [s, ms] of its       *)
(* quotient and remainder by 1000, so that u32::MAX = 4294967295 is        *)
(* representable; the code reads a duration only through `ms / 1000`.      *)
(* All other u32 quantities of the controller stay far below 2^31 and are  *)
(* plain integers.                                                         *)
(***************************************************************************)
EXTENDS Integers, Sequences, FiniteSets, TLC

VARIABLES
    height_mm,      \* SvenState.height_mm
    position,       \* SvenState.position
    pin,            \* output level of pin_up / pin_down: "High" or "Low"
    pc,             \* where the controller task stands
    ret,            \* where move_up / move_down returns to
    target,         \* move_to_position's parameter `position`
    distance_left,  \* local of move_up_relative / move_down_relative
    max_distance,   \* local of move_up_relative / move_down_relative
    delta_ms,       \* parameter of the move_up / move_down in progress
    pulses,         \* history: the pulses issued by the current call
    call,           \* history: the current (or last) public call and its pre-state
    active_high,    \* PulsePin.active_high of pin_up / pin_down
    mpc,            \* where main stands ("off": main is not running)
    cmd,            \* the DeskCommand main decoded last
    pending,        \* messages on sven/command waiting to be received
    retained,       \* the message the broker retains on sven/state
    sent,           \* the status main handed to send_message last
    arg,            \* a pair of durations given to get_duration_mm
    res             \* the pair of displacements it returned

\* the controller: SvenState, its pins, the frames of its methods
ctl == <<height_mm, position, pin, pc, ret, target, distance_left,
         max_distance, delta_ms, pulses, call>>

\* main's state
sys == <<mpc, cmd, pending, retained, sent>>

\* what no method of SvenState writes
env == <<active_high, mpc, cmd, pending, retained, sent, arg, res>>

vars == <<height_mm, position, pin, pc, ret, target, distance_left,
          max_distance, delta_ms, pulses, call, active_high, mpc, cmd,
          pending, retained, sent, arg, res>>

-----------------------------------------------------------------------------
(* Bounds of the model *)

\* largest relative displacement requested of move_*_relative
MaxDeltaMm == 700

\* largest absolute height requested of move_to_height
MaxTargetMm == 1300

\* largest whole-second bucket of the durations given to get_duration_mm
MaxBucket == 12

\* largest `value` of an inbound DeskCommand
MaxValue == 4000

\* most messages waiting on sven/command at one time
MaxPending == 1

-----------------------------------------------------------------------------
(* Constants and tables of SvenState *)

MIN_HEIGHT_MM == 622

MAX_HEIGHT_MM == 1274

POS_THRESH == 5

SvenPosition == {"Bottom", "Top", "Armrest", "AboveArmrest", "Standing", "Custom"}

POSITIONS_MM ==
    << <<"Bottom", MIN_HEIGHT_MM>>,
       <<"Armrest", 750>>,
       <<"AboveArmrest", 795>>,
       <<"Standing", 1140>>,
       <<"Top", MAX_HEIGHT_MM>> >>

MS_TO_CM ==
    << <<1000, 9>>, <<2000, 48>>, <<3000, 82>>, <<4000, 119>>, <<5000, 160>>,
       <<6000, 194>>, <<7000, 234>>, <<8000, 272>>, <<9000, 310>>, <<10000, 347>> >>

\* a u32 duration n (n < 2^31) as quotient and remainder by 1000
Ms(n) == [s |-> n \div 1000, ms |-> n % 1000]

\* u32::MAX = 4294967295 milliseconds
U32_MAX_MS == [s |-> 4294967, ms |-> 295]

\* the least element of a non-empty set of integers
Least(S) == CHOOSE x \in S : \A y \in S : x <= y

\* the greatest element of a non-empty set of integers
Greatest(S) == CHOOSE x \in S : \A y \in S : x >= y

Min(a, b) == IF a < b THEN a ELSE b

Max(a, b) == IF a > b THEN a ELSE b

\* u32::saturating_sub
saturating_sub(a, b) == IF b > a THEN 0 ELSE a - b

\* u32::saturating_add; the operands of the controller (a height and a
\* displacement of at most 347 + 38 * 4294957) never reach the saturation
\* point 2^32 - 1, so the sum is exact
saturating_add(a, b) == a + b

\* get_position_mm: Iterator::find on POSITIONS_MM, MIN_HEIGHT_MM if absent
get_position_mm(p) ==
    LET hit == {i \in DOMAIN POSITIONS_MM : POSITIONS_MM[i][1] = p}
    IN  IF hit = {} THEN MIN_HEIGHT_MM ELSE POSITIONS_MM[Least(hit)][2]

\* get_position_from_height: first entry whose open window holds the height
get_position_from_height(h) ==
    LET hit == {i \in DOMAIN POSITIONS_MM :
                    /\ h < POSITIONS_MM[i][2] + POS_THRESH
                    /\ h > POSITIONS_MM[i][2] - POS_THRESH}
    IN  IF hit = {} THEN "Custom" ELSE POSITIONS_MM[Least(hit)][1]

\* get_duration_mm extrapolating without the 347 mm of the last table entry
get_duration_mm_rate_only(d) ==
    LET s   == d.s
        hit == {i \in DOMAIN MS_TO_CM : MS_TO_CM[i][1] \div 1000 = s}
    IN  IF s > 10 THEN 38 * (s - 10)
        ELSE IF hit = {} THEN 0 ELSE MS_TO_CM[Least(hit)][2]

\* get_duration_mm rounding ms to the nearest second, not down
get_duration_mm_nearest(d) ==
    LET s   == IF d.ms >= 500 THEN d.s + 1 ELSE d.s
        hit == {i \in DOMAIN MS_TO_CM : MS_TO_CM[i][1] \div 1000 = s}
    IN  IF s > 10 THEN 347 + 38 * (s - 10)
        ELSE IF hit = {} THEN 0 ELSE MS_TO_CM[Least(hit)][2]

\* get_duration_mm: the displacement credited to a pulse of `d` milliseconds
get_duration_mm(d) ==
    LET s   == d.s
        hit == {i \in DOMAIN MS_TO_CM : MS_TO_CM[i][1] \div 1000 = s}
    IN  IF s > 10 THEN 347 + 38 * (s - 10)
        ELSE IF hit = {} THEN 0 ELSE MS_TO_CM[Least(hit)][2]

\* max_fit with `mm < distance_left` for `mm <= distance_left`
max_fit_strict(left) ==
    LET hit == {i \in DOMAIN MS_TO_CM : MS_TO_CM[i][2] < left}
    IN  IF hit = {} THEN <<0, 0>> ELSE MS_TO_CM[Greatest(hit)]

\* max_fit without `.rev()`: the first entry that fits, not the last
max_fit_forward(left) ==
    LET hit == {i \in DOMAIN MS_TO_CM : MS_TO_CM[i][2] <= left}
    IN  IF hit = {} THEN <<0, 0>> ELSE MS_TO_CM[Least(hit)]

\* MS_TO_CM.iter().rev().find(|(_, mm)| mm <= distance_left).unwrap_or(&(0, 0))
max_fit(left) ==
    LET hit == {i \in DOMAIN MS_TO_CM : MS_TO_CM[i][2] <= left}
    IN  IF hit = {} THEN <<0, 0>> ELSE MS_TO_CM[Greatest(hit)]

\* the nested match of move_to_position: the pulse from `cur` to `tgt`
transition(cur, tgt) ==
    CASE cur = "Top" /\ tgt = "Top"                   -> [dir |-> "up",   d |-> 5000]
      [] cur = "Top" /\ tgt = "Standing"              -> [dir |-> "down", d |-> 4300]
      [] cur = "Top" /\ tgt = "AboveArmrest"          -> [dir |-> "down", d |-> 13500]
      [] cur = "Top" /\ tgt = "Armrest"               -> [dir |-> "down", d |-> 14800]
      [] cur = "Top" /\ tgt = "Bottom"                -> [dir |-> "down", d |-> 20000]
      [] cur = "Armrest" /\ tgt = "Bottom"            -> [dir |-> "down", d |-> 5000]
      [] cur = "Armrest" /\ tgt = "AboveArmrest"      -> [dir |-> "up",   d |-> 1920]
      [] cur = "Armrest" /\ tgt = "Standing"          -> [dir |-> "up",   d |-> 11000]
      [] cur = "Armrest" /\ tgt = "Top"               -> [dir |-> "up",   d |-> 16000]
      [] cur = "AboveArmrest" /\ tgt = "Armrest"      -> [dir |-> "down", d |-> 1900]
      [] cur = "AboveArmrest" /\ tgt = "Bottom"       -> [dir |-> "down", d |-> 7000]
      [] cur = "AboveArmrest" /\ tgt = "Standing"     -> [dir |-> "up",   d |-> 9900]
      [] cur = "AboveArmrest" /\ tgt = "Top"          -> [dir |-> "up",   d |-> 15000]
      [] cur = "Standing" /\ tgt = "Armrest"          -> [dir |-> "down", d |-> 10800]
      [] cur = "Standing" /\ tgt = "AboveArmrest"     -> [dir |-> "down", d |-> 9900]
      [] cur = "Standing" /\ tgt = "Bottom"           -> [dir |-> "down", d |-> 15000]
      [] cur = "Standing" /\ tgt = "Top"              -> [dir |-> "up",   d |-> 5000]
      [] cur = "Bottom" /\ tgt = "Armrest"            -> [dir |-> "up",   d |-> 4300]
      [] cur = "Bottom" /\ tgt = "AboveArmrest"       -> [dir |-> "up",   d |-> 5200]
      [] cur = "Bottom" /\ tgt = "Standing"           -> [dir |-> "up",   d |-> 15000]
      [] cur = "Bottom" /\ tgt = "Top"                -> [dir |-> "up",   d |-> 20000]
      [] OTHER                                        -> [dir |-> "none", d |-> 0]

\* the level PulsePin::pulse drives first
ActiveLevel(p) == IF active_high[p] THEN "High" ELSE "Low"

\* IdleLevel of a pulse that ignores active_high
IdleLevel_low(p) == "Low"

\* the level PulsePin::pulse drives last
IdleLevel(p) == IF active_high[p] THEN "Low" ELSE "High"

-----------------------------------------------------------------------------
(* Inputs drawn by the public calls *)

Durations ==
    {Ms(0), Ms(999), Ms(1000), Ms(1999), Ms(4000), Ms(10999), Ms(11000),
     U32_MAX_MS}

Deltas == {0, 8, 9, 17, 100, 356, MaxDeltaMm}

Heights == {0, 621, 622, 623, 700, 750, 1000, 1273, 1274, 1275, MaxTargetMm}

NoCall == [name |-> "none", d |-> Ms(0), mm |-> 0, pos |-> "Custom",
           h0 |-> 0, p0 |-> "Custom", again |-> FALSE]

\* the record of a public call entered in the current state; `again` tells a
\* move_to_position(p) entered right after a move_to_position(p) returned
Enter(name, d, mm, pos) ==
    [name |-> name, d |-> d, mm |-> mm, pos |-> pos,
     h0 |-> height_mm, p0 |-> position,
     again |-> (/\ name = "move_to_position"
                /\ call.name = "move_to_position"
                /\ call.pos = pos)]

-----------------------------------------------------------------------------
(* The state before SvenState::new runs its body *)

\* no status message
NoStatus == [height_mm |-> 0, position |-> "none"]

\* no command
NoCommand == [command |-> "none", value |-> 0]

\* main is not running, get_duration_mm is not being sampled
Apart ==
    /\ mpc = "off"
    /\ cmd = NoCommand
    /\ pending = 0
    /\ retained = NoStatus
    /\ sent = NoStatus
    /\ arg = <<>>
    /\ res = <<>>

\* the fields and frames of a SvenState about to be constructed
Unbuilt ==
    /\ height_mm = 0
    /\ position = "Custom"
    /\ pc = "new"
    /\ ret = "idle"
    /\ target = "Custom"
    /\ distance_left = 0
    /\ max_distance = 0
    /\ delta_ms = Ms(0)
    /\ pulses = <<>>
    /\ call = NoCall

\* as main builds it: both pins active-high on outputs that start Low
Init ==
    /\ Unbuilt
    /\ active_high = [up |-> TRUE, down |-> TRUE]
    /\ pin = [up |-> "Low", down |-> "Low"]
    /\ Apart

\* the frame of a public call: its parameter or the first value of its
\* locals; the locals of the call before are gone
Locals(tgt, left) ==
    /\ target' = tgt
    /\ distance_left' = left
    /\ max_distance' = 0

\* a public call that reaches `at` without having pulsed
Fresh(at) ==
    /\ pc' = at
    /\ ret' = "idle"
    /\ delta_ms' = Ms(0)
    /\ pulses' = <<>>

-----------------------------------------------------------------------------
(* move_up / move_down and PulsePin::pulse *)

\* move_up(d) / move_down(d) up to the Timer await of PulsePin::pulse: the
\* output is driven to its active level; `log` is the history so far
MoveBegin(dir, d, back, log) ==
    /\ pin' = [pin EXCEPT ![dir] = ActiveLevel(dir)]
    /\ delta_ms' = d
    /\ pulses' = Append(log, [dir |-> dir, d |-> d])
    /\ pc' = IF dir = "up" THEN "move_up" ELSE "move_down"
    /\ ret' = back

\* up_height without the `.min(MAX_HEIGHT_MM)`
up_height_unclamped(h, delta_mm) == saturating_add(h, delta_mm)

\* the height move_up stores
up_height(h, delta_mm) == Min(MAX_HEIGHT_MM, saturating_add(h, delta_mm))

\* the height move_down stores
down_height(h, delta_mm) == Max(MIN_HEIGHT_MM, saturating_sub(h, delta_mm))

\* move_up_resume leaving pin_up asserted
move_up_resume_stuck ==
    /\ pc = "move_up"
    /\ height_mm' = up_height(height_mm, get_duration_mm(delta_ms))
    /\ position' = get_position_from_height(height_mm')
    /\ pc' = ret
    /\ ret' = "idle"
    /\ UNCHANGED <<pin, target, distance_left, max_distance, delta_ms, pulses,
                   call>>

\* move_up after the Timer of pulse fires: output back to idle, height
\* credited and clamped, position recomputed, return to the caller
move_up_resume ==
    /\ pc = "move_up"
    /\ pin' = [pin EXCEPT !["up"] = IdleLevel("up")]
    /\ height_mm' = up_height(height_mm, get_duration_mm(delta_ms))
    /\ position' = get_position_from_height(height_mm')
    /\ pc' = ret
    /\ ret' = "idle"
    /\ UNCHANGED <<target, distance_left, max_distance, delta_ms, pulses, call>>

move_down_resume ==
    /\ pc = "move_down"
    /\ pin' = [pin EXCEPT !["down"] = IdleLevel("down")]
    /\ height_mm' = down_height(height_mm, get_duration_mm(delta_ms))
    /\ position' = get_position_from_height(height_mm')
    /\ pc' = ret
    /\ ret' = "idle"
    /\ UNCHANGED <<target, distance_left, max_distance, delta_ms, pulses, call>>

\* a public call of move_up(d)
move_up(d) ==
    /\ pc = "idle"
    /\ call' = Enter("move_up", d, 0, "Custom")
    /\ MoveBegin("up", d, "idle", <<>>)
    /\ Locals("Custom", 0)
    /\ UNCHANGED <<height_mm, position>>

\* a public call of move_down(d)
move_down(d) ==
    /\ pc = "idle"
    /\ call' = Enter("move_down", d, 0, "Custom")
    /\ MoveBegin("down", d, "idle", <<>>)
    /\ Locals("Custom", 0)
    /\ UNCHANGED <<height_mm, position>>

-----------------------------------------------------------------------------
(* move_to_position *)

\* mtp_entry homing with move_down(20000)
mtp_entry_homing_down ==
    /\ pc = "mtp_entry"
    /\ IF position = "Custom"
       THEN MoveBegin("down", Ms(20000), "mtp_homed", pulses)
       ELSE /\ pc' = "mtp_match"
            /\ UNCHANGED <<pin, delta_ms, pulses, ret>>
    /\ UNCHANGED <<height_mm, position, target, distance_left, max_distance, call>>

\* entry of move_to_position: an unknown position is homed with move_up(20000)
mtp_entry ==
    /\ pc = "mtp_entry"
    /\ IF position = "Custom"
       THEN MoveBegin("up", Ms(20000), "mtp_homed", pulses)
       ELSE /\ pc' = "mtp_match"
            /\ UNCHANGED <<pin, delta_ms, pulses, ret>>
    /\ UNCHANGED <<height_mm, position, target, distance_left, max_distance, call>>

\* after the homing pulse: the state is declared Top
mtp_homed ==
    /\ pc = "mtp_homed"
    /\ position' = "Top"
    /\ height_mm' = MAX_HEIGHT_MM
    /\ pc' = "mtp_match"
    /\ UNCHANGED <<pin, ret, target, distance_left, max_distance, delta_ms,
                   pulses, call>>

\* mtp_match with the two matched positions exchanged
mtp_match_swapped ==
    /\ pc = "mtp_match"
    /\ LET t == transition(target, position)
       IN  IF t.dir = "none"
           THEN /\ pc' = "mtp_set"
                /\ UNCHANGED <<pin, delta_ms, pulses, ret>>
           ELSE MoveBegin(t.dir, Ms(t.d), "mtp_set", pulses)
    /\ UNCHANGED <<height_mm, position, target, distance_left, max_distance, call>>

\* the match on (self.position, position): at most one transition pulse
mtp_match ==
    /\ pc = "mtp_match"
    /\ LET t == transition(position, target)
       IN  IF t.dir = "none"
           THEN /\ pc' = "mtp_set"
                /\ UNCHANGED <<pin, delta_ms, pulses, ret>>
           ELSE MoveBegin(t.dir, Ms(t.d), "mtp_set", pulses)
    /\ UNCHANGED <<height_mm, position, target, distance_left, max_distance, call>>

\* mtp_set keeping the height accumulated by the transition pulse
mtp_set_accumulated ==
    /\ pc = "mtp_set"
    /\ position' = target
    /\ pc' = "idle"
    /\ UNCHANGED <<height_mm, pin, ret, target, distance_left, max_distance,
                   delta_ms, pulses, call>>

\* mtp_set without its two assignments: the state move_up / move_down left
mtp_set_missing ==
    /\ pc = "mtp_set"
    /\ pc' = "idle"
    /\ UNCHANGED <<height_mm, position, pin, ret, target, distance_left,
                   max_distance, delta_ms, pulses, call>>

\* the two assignments ending move_to_position
mtp_set ==
    /\ pc = "mtp_set"
    /\ position' = target
    /\ height_mm' = get_position_mm(target)
    /\ pc' = "idle"
    /\ UNCHANGED <<pin, ret, target, distance_left, max_distance, delta_ms,
                   pulses, call>>

\* a public call of move_to_position(p)
move_to_position(p) ==
    /\ pc = "idle"
    /\ call' = Enter("move_to_position", Ms(0), 0, p)
    /\ Locals(p, 0)
    /\ Fresh("mtp_entry")
    /\ UNCHANGED <<height_mm, position, pin>>

\* SvenState::new: the fields are set and move_to_position(Standing) is called
new ==
    /\ pc = "new"
    /\ height_mm' = 0
    /\ position' = "Custom"
    /\ call' = [name |-> "new", d |-> Ms(0), mm |-> 0, pos |-> "Standing",
                h0 |-> 0, p0 |-> "Custom", again |-> FALSE]
    /\ Locals("Standing", 0)
    /\ Fresh("mtp_entry")
    /\ UNCHANGED pin

-----------------------------------------------------------------------------
(* move_up_relative / move_down_relative *)

\* rel_loop leaving the loop once height_mm is at the limit of its direction
rel_loop_stops_at_limit(dir) ==
    /\ pc = (IF dir = "up" THEN "rel_up" ELSE "rel_down")
    /\ LET e == max_fit(distance_left)
           at_limit == IF dir = "up" THEN height_mm >= MAX_HEIGHT_MM
                       ELSE height_mm <= MIN_HEIGHT_MM
       IN  IF distance_left > 0 /\ e[1] # 0 /\ ~at_limit
           THEN /\ max_distance' = e[2]
                /\ MoveBegin(dir, Ms(e[1]),
                             IF dir = "up" THEN "rel_up_wait" ELSE "rel_down_wait",
                             pulses)
           ELSE /\ pc' = "idle"
                /\ UNCHANGED <<pin, delta_ms, pulses, ret, max_distance>>
    /\ UNCHANGED <<height_mm, position, target, distance_left, call>>

\* the head of the while loop of move_<dir>_relative, up to the pulse
rel_loop(dir) ==
    /\ pc = (IF dir = "up" THEN "rel_up" ELSE "rel_down")
    /\ LET e == max_fit(distance_left)
       IN  IF distance_left > 0 /\ e[1] # 0
           THEN /\ max_distance' = e[2]
                /\ MoveBegin(dir, Ms(e[1]),
                             IF dir = "up" THEN "rel_up_wait" ELSE "rel_down_wait",
                             pulses)
           ELSE /\ pc' = "idle"
                /\ UNCHANGED <<pin, delta_ms, pulses, ret, max_distance>>
    /\ UNCHANGED <<height_mm, position, target, distance_left, call>>

\* rel_wait without `distance_left = distance_left.saturating_sub(..)`
rel_wait_keeps_distance(dir) ==
    /\ pc = (IF dir = "up" THEN "rel_up_wait" ELSE "rel_down_wait")
    /\ pc' = (IF dir = "up" THEN "rel_up" ELSE "rel_down")
    /\ UNCHANGED <<height_mm, position, pin, ret, target, distance_left,
                   max_distance, delta_ms, pulses, call>>

\* after move_<dir> returned and the 1000 ms Timer fired
rel_wait(dir) ==
    /\ pc = (IF dir = "up" THEN "rel_up_wait" ELSE "rel_down_wait")
    /\ distance_left' = saturating_sub(distance_left, max_distance)
    /\ pc' = (IF dir = "up" THEN "rel_up" ELSE "rel_down")
    /\ UNCHANGED <<height_mm, position, pin, ret, target, max_distance, delta_ms,
                   pulses, call>>

move_up_relative_loop == rel_loop("up")

move_up_relative_wait == rel_wait("up")

move_down_relative_loop == rel_loop("down")

move_down_relative_wait == rel_wait("down")

\* move_up_relative rounding delta_mm up to the finest displacement of the table
move_up_relative_rounded(delta_mm) ==
    /\ pc = "idle"
    /\ call' = Enter("move_up_relative", Ms(0), delta_mm, "Custom")
    /\ Locals("Custom", Max(delta_mm, MS_TO_CM[1][2]))
    /\ Fresh("rel_up")
    /\ UNCHANGED <<height_mm, position, pin>>

\* a public call of move_up_relative(delta_mm)
move_up_relative(delta_mm) ==
    /\ pc = "idle"
    /\ call' = Enter("move_up_relative", Ms(0), delta_mm, "Custom")
    /\ Locals("Custom", delta_mm)
    /\ Fresh("rel_up")
    /\ UNCHANGED <<height_mm, position, pin>>

\* a public call of move_down_relative(delta_mm)
move_down_relative(delta_mm) ==
    /\ pc = "idle"
    /\ call' = Enter("move_down_relative", Ms(0), delta_mm, "Custom")
    /\ Locals("Custom", delta_mm)
    /\ Fresh("rel_down")
    /\ UNCHANGED <<height_mm, position, pin>>

-----------------------------------------------------------------------------
(* move_to_height *)

\* move_to_height with the two relative branches exchanged
move_to_height_swapped(h) ==
    /\ pc = "idle"
    /\ call' = Enter("move_to_height", Ms(0), h, "Custom")
    /\ IF h = height_mm
       THEN Locals("Custom", 0) /\ Fresh("idle")
       ELSE IF h < MIN_HEIGHT_MM
       THEN Locals("Bottom", 0) /\ Fresh("mtp_entry")
       ELSE IF h > MAX_HEIGHT_MM
       THEN Locals("Top", 0) /\ Fresh("mtp_entry")
       ELSE IF h > height_mm
       THEN Locals("Custom", h - height_mm) /\ Fresh("rel_down")
       ELSE Locals("Custom", height_mm - h) /\ Fresh("rel_up")
    /\ UNCHANGED <<height_mm, position, pin>>

\* move_to_height without the two branches for heights outside the limits
move_to_height_unchecked(h) ==
    /\ pc = "idle"
    /\ call' = Enter("move_to_height", Ms(0), h, "Custom")
    /\ IF h = height_mm
       THEN Locals("Custom", 0) /\ Fresh("idle")
       ELSE IF h > height_mm
       THEN Locals("Custom", h - height_mm) /\ Fresh("rel_up")
       ELSE Locals("Custom", height_mm - h) /\ Fresh("rel_down")
    /\ UNCHANGED <<height_mm, position, pin>>

\* move_to_height testing the limits first, with `<=` and `>=`
move_to_height_limits_first(h) ==
    /\ pc = "idle"
    /\ call' = Enter("move_to_height", Ms(0), h, "Custom")
    /\ IF h <= MIN_HEIGHT_MM
       THEN Locals("Bottom", 0) /\ Fresh("mtp_entry")
       ELSE IF h >= MAX_HEIGHT_MM
       THEN Locals("Top", 0) /\ Fresh("mtp_entry")
       ELSE IF h = height_mm
       THEN Locals("Custom", 0) /\ Fresh("idle")
       ELSE IF h > height_mm
       THEN Locals("Custom", h - height_mm) /\ Fresh("rel_up")
       ELSE Locals("Custom", height_mm - h) /\ Fresh("rel_down")
    /\ UNCHANGED <<height_mm, position, pin>>

\* a public call of move_to_height(h): the four branches of the function
move_to_height(h) ==
    /\ pc = "idle"
    /\ call' = Enter("move_to_height", Ms(0), h, "Custom")
    /\ IF h = height_mm
       THEN Locals("Custom", 0) /\ Fresh("idle")
       ELSE IF h < MIN_HEIGHT_MM
       THEN Locals("Bottom", 0) /\ Fresh("mtp_entry")
       ELSE IF h > MAX_HEIGHT_MM
       THEN Locals("Top", 0) /\ Fresh("mtp_entry")
       ELSE IF h > height_mm
       THEN Locals("Custom", h - height_mm) /\ Fresh("rel_up")
       ELSE Locals("Custom", height_mm - h) /\ Fresh("rel_down")
    /\ UNCHANGED <<height_mm, position, pin>>

-----------------------------------------------------------------------------
(* The controller driven by any sequence of public calls *)

Next ==
    \/ new /\ UNCHANGED env
    \/ \E d \in Durations : move_up(d) /\ UNCHANGED env
    \/ \E d \in Durations : move_down(d) /\ UNCHANGED env
    \/ move_up_resume /\ UNCHANGED env
    \/ move_down_resume /\ UNCHANGED env
    \/ \E p \in SvenPosition : move_to_position(p) /\ UNCHANGED env
    \/ mtp_entry /\ UNCHANGED env
    \/ mtp_homed /\ UNCHANGED env
    \/ mtp_match /\ UNCHANGED env
    \/ mtp_set /\ UNCHANGED env
    \/ \E delta_mm \in Deltas : move_up_relative(delta_mm) /\ UNCHANGED env
    \/ \E delta_mm \in Deltas : move_down_relative(delta_mm) /\ UNCHANGED env
    \/ move_up_relative_loop /\ UNCHANGED env
    \/ move_up_relative_wait /\ UNCHANGED env
    \/ move_down_relative_loop /\ UNCHANGED env
    \/ move_down_relative_wait /\ UNCHANGED env
    \/ \E h \in Heights : move_to_height(h) /\ UNCHANGED env

Spec == Init /\ [][Next]_vars

\* a step inside an operation: a Timer fires and the one task that runs the
\* controller goes on to its next await
Resume ==
    /\ \/ move_up_resume
       \/ move_down_resume
       \/ mtp_entry
       \/ mtp_homed
       \/ mtp_match
       \/ mtp_set
       \/ move_up_relative_loop
       \/ move_up_relative_wait
       \/ move_down_relative_loop
       \/ move_down_relative_wait
    /\ UNCHANGED env

\* construction, then relative moves only
RelNext ==
    \/ new /\ UNCHANGED env
    \/ \E delta_mm \in Deltas : move_up_relative(delta_mm) /\ UNCHANGED env
    \/ \E delta_mm \in Deltas : move_down_relative(delta_mm) /\ UNCHANGED env
    \/ Resume

\* the controller doing relative moves, with its Timers firing: an operation
\* under way is resumed
RelSpec == Init /\ [][RelNext]_vars /\ WF_vars(Resume)

\* a SvenState on pins of either polarity, each output resting at the level
\* that does not drive the motor
PulseInit ==
    /\ Unbuilt
    /\ active_high \in [{"up", "down"} -> BOOLEAN]
    /\ pin = [p \in {"up", "down"} |-> IF active_high[p] THEN "Low" ELSE "High"]
    /\ Apart

\* the controller on PulsePin of both polarities
PulseSpec == PulseInit /\ [][Next]_vars

-----------------------------------------------------------------------------
(* get_duration_mm on its own *)

\* durations at both ends of every whole-second bucket, and u32::MAX
DurationSamples ==
    {[s |-> k, ms |-> r] : k \in 0..MaxBucket, r \in {0, 999}} \cup {U32_MAX_MS}

\* a <= b as u32 milliseconds
DurationLeq(a, b) == a.s < b.s \/ (a.s = b.s /\ a.ms <= b.ms)

\* any two durations, not looked up yet
LookupInit ==
    /\ Unbuilt
    /\ active_high = [up |-> TRUE, down |-> TRUE]
    /\ pin = [up |-> "Low", down |-> "Low"]
    /\ mpc = "off"
    /\ cmd = NoCommand
    /\ pending = 0
    /\ retained = NoStatus
    /\ sent = NoStatus
    /\ arg \in DurationSamples \X DurationSamples
    /\ res = <<>>

\* get_duration_mm is applied to both
lookup ==
    /\ res = <<>>
    /\ res' = <<get_duration_mm(arg[1]), get_duration_mm(arg[2])>>
    /\ UNCHANGED <<ctl, active_high, sys, arg>>

LookupSpec == LookupInit /\ [][lookup]_vars

-----------------------------------------------------------------------------
(* main: connection loop, command loop, handle_desk_command *)

SvenCommand ==
    {"UpDuration", "DownDuration", "UpRelative", "DownRelative",
     "AbsoluteHeight", "Position"}

\* the `value` fields drawn for inbound commands
Values == {0, 2, 5, 6, 100, 1000, MaxValue}

DeskCommand == [command : SvenCommand, value : Values]

\* SvenStatePub::new (main names the type SvenStateMsg)
Status(h, p) == [height_mm |-> h, position |-> p]

\* what a sven/state message retained from an earlier run may hold
RetainedAtBoot ==
    {NoStatus, Status(750, "Armrest"), Status(850, "Custom")}

\* try_from defaulting to Bottom where handle_desk_command wants Armrest
position_or_bottom(value) ==
    CASE value = 0 -> "Bottom"
      [] value = 1 -> "Top"
      [] value = 2 -> "Armrest"
      [] value = 3 -> "AboveArmrest"
      [] value = 4 -> "Standing"
      [] value = 5 -> "Custom"
      [] OTHER -> "Bottom"

\* SvenPosition::try_from(value).unwrap_or(SvenPosition::Armrest)
position_or_armrest(value) ==
    CASE value = 0 -> "Bottom"
      [] value = 1 -> "Top"
      [] value = 2 -> "Armrest"
      [] value = 3 -> "AboveArmrest"
      [] value = 4 -> "Standing"
      [] value = 5 -> "Custom"
      [] OTHER -> "Armrest"

\* handle_desk_command up to the first await of the method it calls
handle_desk_command(c) ==
    \/ c.command = "UpDuration" /\ move_up(Ms(c.value))
    \/ c.command = "DownDuration" /\ move_down(Ms(c.value))
    \/ c.command = "UpRelative" /\ move_up_relative(c.value)
    \/ c.command = "DownRelative" /\ move_down_relative(c.value)
    \/ c.command = "AbsoluteHeight" /\ move_to_height(c.value)
    \/ c.command = "Position" /\ move_to_position(position_or_armrest(c.value))

\* main awaits SvenState::new before anything else
SysInit ==
    /\ Unbuilt
    /\ active_high = [up |-> TRUE, down |-> TRUE]
    /\ pin = [up |-> "Low", down |-> "Low"]
    /\ mpc = "boot"
    /\ cmd = NoCommand
    /\ pending = 0
    /\ retained \in RetainedAtBoot
    /\ sent = NoStatus
    /\ arg = <<>>
    /\ res = <<>>

\* SvenState::new has returned: main enters its connection loop
booted ==
    /\ mpc = "boot"
    /\ pc = "idle"
    /\ call.name = "new"
    /\ mpc' = "connect"
    /\ UNCHANGED <<ctl, active_high, cmd, pending, retained, sent, arg, res>>

\* the socket and the broker connect (a failed attempt loops back unchanged)
connect ==
    /\ mpc = "connect"
    /\ mpc' = "get_state"
    /\ UNCHANGED <<ctl, active_high, cmd, pending, retained, sent, arg, res>>

\* subscribe to sven/state and receive once: a retained status, when one is
\* delivered, is copied into the controller's fields
get_state ==
    /\ mpc = "get_state"
    /\ \/ /\ retained # NoStatus
          /\ height_mm' = retained.height_mm
          /\ position' = retained.position
       \/ UNCHANGED <<height_mm, position>>
    /\ mpc' = "publish"
    /\ UNCHANGED <<pin, pc, ret, target, distance_left, max_distance, delta_ms,
                   pulses, call, active_high, cmd, pending, retained, sent,
                   arg, res>>

\* the status published after subscribing to sven/command (retain = true)
publish_initial ==
    /\ mpc = "publish"
    /\ sent' = Status(height_mm, position)
    /\ retained' = Status(height_mm, position)
    /\ mpc' = "receive"
    /\ UNCHANGED <<ctl, active_high, cmd, pending, arg, res>>

\* a message reaches the client on sven/command, which main has subscribed
\* to: whether main waits in receive_message or is handling a command
arrive ==
    /\ mpc \in {"receive", "handling"}
    /\ pending < MaxPending
    /\ pending' = pending + 1
    /\ UNCHANGED <<ctl, active_high, mpc, cmd, retained, sent, arg, res>>

\* receive_message returns a payload that decodes to the command c
receive_command(c) ==
    /\ mpc = "receive"
    /\ pending > 0
    /\ pending' = pending - 1
    /\ cmd' = c
    /\ handle_desk_command(c)
    /\ mpc' = "handling"
    /\ UNCHANGED <<active_high, retained, sent, arg, res>>

\* receive_message returns a payload that from_slice rejects: panic!
receive_malformed ==
    /\ mpc = "receive"
    /\ pending > 0
    /\ pending' = pending - 1
    /\ mpc' = "panicked"
    /\ UNCHANGED <<ctl, active_high, cmd, retained, sent, arg, res>>

\* receive_message returns Err: the command loop breaks, main reconnects
\* (what waited on the lost connection is gone with it)
receive_error ==
    /\ mpc = "receive"
    /\ mpc' = "connect"
    /\ pending' = 0
    /\ UNCHANGED <<ctl, active_high, cmd, retained, sent, arg, res>>

\* publish_after building the status before the command was handled
publish_after_stale ==
    /\ mpc = "handling"
    /\ pc = "idle"
    /\ sent' = Status(call.h0, call.p0)
    /\ retained' = Status(call.h0, call.p0)
    /\ mpc' = "receive"
    /\ UNCHANGED <<ctl, active_high, cmd, pending, arg, res>>

\* handle_desk_command has returned: the new status is published, then
\* sleep(1000) and back to receive_message
publish_after ==
    /\ mpc = "handling"
    /\ pc = "idle"
    /\ sent' = Status(height_mm, position)
    /\ retained' = Status(height_mm, position)
    /\ mpc' = "receive"
    /\ UNCHANGED <<ctl, active_high, cmd, pending, arg, res>>

SysNext ==
    \/ mpc = "boot" /\ new /\ UNCHANGED env
    \/ move_up_resume /\ UNCHANGED env
    \/ move_down_resume /\ UNCHANGED env
    \/ mtp_entry /\ UNCHANGED env
    \/ mtp_homed /\ UNCHANGED env
    \/ mtp_match /\ UNCHANGED env
    \/ mtp_set /\ UNCHANGED env
    \/ move_up_relative_loop /\ UNCHANGED env
    \/ move_up_relative_wait /\ UNCHANGED env
    \/ move_down_relative_loop /\ UNCHANGED env
    \/ move_down_relative_wait /\ UNCHANGED env
    \/ booted
    \/ connect
    \/ get_state
    \/ publish_initial
    \/ arrive
    \/ \E c \in DeskCommand : receive_command(c)
    \/ receive_malformed
    \/ receive_error
    \/ publish_after

\* main with its controller, fed any commands
SysSpec == SysInit /\ [][SysNext]_vars

-----------------------------------------------------------------------------
(* Shapes of the state *)

TypeOK ==
    /\ height_mm \in 0..MAX_HEIGHT_MM
    /\ position \in SvenPosition
    /\ pin \in [{"up", "down"} -> {"High", "Low"}]
    /\ pc \in {"new", "idle", "move_up", "move_down", "mtp_entry", "mtp_homed",
               "mtp_match", "mtp_set", "rel_up", "rel_down", "rel_up_wait",
               "rel_down_wait"}
    /\ target \in SvenPosition
    /\ distance_left \in Nat
    /\ max_distance \in Nat
    /\ Len(pulses) <= 2 + MaxDeltaMm
    /\ mpc \in {"off", "boot", "connect", "get_state", "publish", "receive",
                 "handling", "panicked"}
    /\ cmd \in DeskCommand \cup {NoCommand}
    /\ pending \in 0..MaxPending

-----------------------------------------------------------------------------
(* Vocabulary of the properties *)

\* SvenState::new has returned
Constructed ==
    \/ call.name \notin {"none", "new"}
    \/ call.name = "new" /\ pc = "idle"

\* the current call has returned
Returned == pc = "idle" /\ call.name # "none"

\* the current call runs move_to_position (directly, from new, or from
\* move_to_height with a height outside the travel limits)
MtpCalled ==
    \/ call.name \in {"new", "move_to_position"}
    \/ /\ call.name = "move_to_height"
       /\ call.mm # call.h0
       /\ (call.mm < 622 \/ call.mm > 1274)

\* the current call runs a relative move (directly, or from move_to_height
\* with a height inside the travel limits)
RelCalled ==
    \/ call.name \in {"move_up_relative", "move_down_relative"}
    \/ /\ call.name = "move_to_height"
       /\ call.mm # call.h0
       /\ call.mm >= 622 /\ call.mm <= 1274

\* the delta_mm that relative move was given
RelDelta ==
    IF call.name = "move_to_height"
    THEN (IF call.mm > call.h0 THEN call.mm - call.h0 ELSE call.h0 - call.mm)
    ELSE call.mm

\* the direction of that relative move
RelDir ==
    IF call.name = "move_up_relative" THEN "up"
    ELSE IF call.name = "move_down_relative" THEN "down"
    ELSE IF call.mm > call.h0 THEN "up" ELSE "down"

\* the Table B displacement of every pulse of a log, summed
RECURSIVE Covered(_)
Covered(log) ==
    IF log = <<>> THEN 0
    ELSE get_duration_mm(Head(log).d) + Covered(Tail(log))

\* no output is asserted
PinsIdle == pin["up"] = "Low" /\ pin["down"] = "Low"

Pulse(dir, n) == [dir |-> dir, d |-> Ms(n)]

-----------------------------------------------------------------------------
(* Properties *)

\* C1: once SvenState::new has returned, in every state of every call (between
\* two pulses included) the height estimate is within the travel limits,
\* 622 <= height_mm <= 1274.
C1_HeightWithinLimits ==
    Constructed => (height_mm >= 622 /\ height_mm <= 1274)

\* C1 witness: a move_up of u32::MAX milliseconds from below the top has
\* returned with the height clamped at 1274.
C1_Witness ==
    /\ Returned
    /\ call.name = "move_up"
    /\ call.d = U32_MAX_MS
    /\ call.h0 < 1274
    /\ height_mm = 1274

\* C2: when move_to_position(target) returns for a named target, position is
\* the target and height_mm is the target's Table A height, whatever the
\* height was before.
C2_MoveToPositionSetsTableHeight ==
    (Returned /\ call.name = "move_to_position" /\ call.pos # "Custom") =>
        /\ position = call.pos
        /\ height_mm = (CASE call.pos = "Bottom" -> 622
                          [] call.pos = "Armrest" -> 750
                          [] call.pos = "AboveArmrest" -> 795
                          [] call.pos = "Standing" -> 1140
                          [] call.pos = "Top" -> 1274)

\* C2 witness: move_to_position(Armrest) returned after starting from an
\* accumulated height that is no Table A height.
C2_Witness ==
    /\ Returned
    /\ call.name = "move_to_position"
    /\ call.pos = "Armrest"
    /\ call.p0 = "Custom"
    /\ call.h0 \notin {622, 750, 795, 1140, 1274}
    /\ height_mm = 750

\* C3 (as claimed): when construction has returned, position = Armrest and
\* height_mm = 750.
C3_InitEndsAtArmrest ==
    (Returned /\ call.name = "new") => (position = "Armrest" /\ height_mm = 750)

\* C4: in a move_to_position entered with position = Custom, the first pulse
\* is up for 20000 ms, the state is Top / 1274 when the transition pulse
\* starts, that pulse is the one from Top to the target, and there is no other.
C4_HomingFirst ==
    (MtpCalled /\ call.p0 = "Custom" /\ pc # "mtp_entry") =>
        /\ Len(pulses) \in {1, 2}
        /\ pulses[1] = Pulse("up", 20000)
        /\ (pc = "mtp_match" => Len(pulses) = 1)
        /\ (pc \in {"mtp_match", "mtp_set"} /\ Len(pulses) = 1) =>
               (position = "Top" /\ height_mm = 1274)
        /\ (Len(pulses) = 2 /\ pc \in {"move_up", "move_down"}) =>
               (position = "Top" /\ height_mm = 1274)
        /\ Len(pulses) = 2 =>
               /\ transition("Top", target).dir # "none"
               /\ pulses[2] = Pulse(transition("Top", target).dir,
                                    transition("Top", target).d)

\* C4 witness: a move_to_position called with position = Custom is pulsing
\* down, its second pulse, after the homing pulse.
C4_Witness ==
    /\ call.name = "move_to_position"
    /\ call.p0 = "Custom"
    /\ pc = "move_down"
    /\ Len(pulses) = 2
    /\ pin["down"] = "High"

\* C5: the pulses of one relative move never cover more than delta_mm, all go
\* in the requested direction, and when the move returns less than 9 mm of
\* delta_mm is left uncovered.
C5_NoOvershoot ==
    RelCalled =>
        /\ Covered(pulses) <= RelDelta
        /\ \A i \in DOMAIN pulses : pulses[i].dir = RelDir
        /\ Returned => RelDelta - Covered(pulses) < 9

\* C5 witness: move_up_relative(17) returned after one pulse, 8 mm short.
C5_Witness ==
    /\ Returned
    /\ call.name = "move_up_relative"
    /\ call.mm = 17
    /\ pulses = <<Pulse("up", 1000)>>

\* C6 (as claimed): from Armrest / 750, move_up_relative(100) pulses 3000 ms
\* then 1000 ms and stops at height_mm = 841, 9 mm short.
C6_OneShortPulse ==
    (/\ Returned
     /\ call.name = "move_up_relative"
     /\ call.mm = 100
     /\ call.p0 = "Armrest"
     /\ call.h0 = 750) =>
        /\ pulses = <<Pulse("up", 3000), Pulse("up", 1000)>>
        /\ height_mm = 841

\* C6 (amended): from Armrest / 750, move_up_relative(100) pulses 3000 ms, then
\* 1000 ms twice, and stops at height_mm = 850 with nothing left over.
C6_TwoShortPulses ==
    (/\ Returned
     /\ call.name = "move_up_relative"
     /\ call.mm = 100
     /\ call.p0 = "Armrest"
     /\ call.h0 = 750) =>
        /\ pulses = <<Pulse("up", 3000), Pulse("up", 1000), Pulse("up", 1000)>>
        /\ height_mm = 850
        /\ distance_left = 0

\* C6 witness: move_up_relative(100) has returned from Armrest / 750.
C6_Witness ==
    /\ Returned
    /\ call.name = "move_up_relative"
    /\ call.mm = 100
    /\ call.p0 = "Armrest"
    /\ call.h0 = 750
    /\ Len(pulses) = 3

\* C7: move_to_height(t) with t within the travel limits and t # height_mm
\* pulses only towards t, keeps height_mm between the starting height and t,
\* and returns less than 9 mm short of t.
C7_TowardsTarget ==
    (/\ call.name = "move_to_height"
     /\ call.mm >= 622 /\ call.mm <= 1274
     /\ call.mm # call.h0) =>
        IF call.mm > call.h0
        THEN /\ \A i \in DOMAIN pulses : pulses[i].dir = "up"
             /\ call.h0 <= height_mm /\ height_mm <= call.mm
             /\ Returned => call.mm - height_mm < 9
        ELSE /\ \A i \in DOMAIN pulses : pulses[i].dir = "down"
             /\ call.mm <= height_mm /\ height_mm <= call.h0
             /\ Returned => height_mm - call.mm < 9

\* C7 witness: move_to_height(1000) returned from a lower height, having
\* moved up and stopped short of 1000.
C7_Witness ==
    /\ Returned
    /\ call.name = "move_to_height"
    /\ call.mm = 1000
    /\ call.h0 < 1000
    /\ height_mm > call.h0
    /\ height_mm < 1000
    /\ Len(pulses) >= 2

C9_MoveToSelfIsNoOp ==
    (call.name = "move_to_height" /\ call.mm = call.h0) =>
        /\ pulses = <<>>
        /\ PinsIdle
        /\ height_mm = call.h0
        /\ position = call.p0

\* C9 witness: move_to_height(1274) returned when the height was 1274.
C9_Witness ==
    /\ Returned
    /\ call.name = "move_to_height"
    /\ call.mm = 1274
    /\ call.h0 = 1274

\* C10: a relative move of 0 mm, up or down, issues no pulse and leaves
\* height_mm and position as they were.
C10_ZeroRelativeIsNoOp ==
    (call.name \in {"move_up_relative", "move_down_relative"} /\ call.mm = 0) =>
        /\ pulses = <<>>
        /\ PinsIdle
        /\ height_mm = call.h0
        /\ position = call.p0

\* C10 witness: move_down_relative(0) has returned.
C10_Witness ==
    /\ Returned
    /\ call.name = "move_down_relative"
    /\ call.mm = 0

\* C11: a move_to_position(p) called right after a move_to_position(p) has
\* returned leaves the state that first call reached: position = p and
\* height_mm = the Table A height of p.
C11_RepeatKeepsState ==
    (Returned /\ call.name = "move_to_position" /\ call.again) =>
        /\ position = call.pos
        /\ position = call.p0
        /\ height_mm = call.h0
        /\ call.pos # "Custom" =>
               height_mm = (CASE call.pos = "Bottom" -> 622
                              [] call.pos = "Armrest" -> 750
                              [] call.pos = "AboveArmrest" -> 795
                              [] call.pos = "Standing" -> 1140
                              [] call.pos = "Top" -> 1274)

\* C11 witness: the second move_to_position(Top) in a row has returned, having
\* pulsed up 5000 ms.
C11_Witness ==
    /\ Returned
    /\ call.name = "move_to_position"
    /\ call.again
    /\ call.pos = "Top"
    /\ pulses = <<Pulse("up", 5000)>>
    /\ height_mm = 1274

\* C12: a move_to_position entered with position = Armrest issues exactly the
\* pulse of its target: Bottom down 5000, AboveArmrest up 1920, Standing up
\* 11000, Top up 16000 (none for Armrest or Custom); from Armrest / 750 the
\* call to Top ends at Top / 1274.
C12_FromArmrest ==
    (call.name = "move_to_position" /\ call.p0 = "Armrest" /\ pc # "mtp_entry"
     /\ pc # "mtp_match") =>
        /\ pulses = (CASE call.pos = "Bottom" -> <<Pulse("down", 5000)>>
                       [] call.pos = "AboveArmrest" -> <<Pulse("up", 1920)>>
                       [] call.pos = "Standing" -> <<Pulse("up", 11000)>>
                       [] call.pos = "Top" -> <<Pulse("up", 16000)>>
                       [] OTHER -> <<>>)
        /\ (Returned /\ call.pos = "Top" /\ call.h0 = 750) =>
               (height_mm = 1274 /\ position = "Top")

\* C12 witness: move_to_position(Top) returned from Armrest / 750 after one
\* up pulse of 16000 ms.
C12_Witness ==
    /\ Returned
    /\ call.name = "move_to_position"
    /\ call.p0 = "Armrest"
    /\ call.h0 = 750
    /\ call.pos = "Top"
    /\ pulses = <<Pulse("up", 16000)>>
    /\ height_mm = 1274
    /\ position = "Top"

\* C14: whatever the polarity of a pin and the duration of the pulse (0
\* included), the output is at its active level exactly while its move_up /
\* move_down waits in pulse, and at its idle level in every other state: so
\* every operation returns with both outputs idle.
C14_PulseAssertsThenIdles ==
    \A p \in {"up", "down"} :
        LET active == IF active_high[p] THEN "High" ELSE "Low"
            idle   == IF active_high[p] THEN "Low" ELSE "High"
            moving == IF p = "up" THEN "move_up" ELSE "move_down"
        IN  /\ pc = moving => pin[p] = active
            /\ pc # moving => pin[p] = idle

\* C14 witness: an active-low pin_down has been pulsed for 0 ms and is idle
\* (High) again, the call having returned.
C14_Witness ==
    /\ Returned
    /\ call.name = "move_down"
    /\ call.d = Ms(0)
    /\ ~active_high["down"]
    /\ pulses = <<Pulse("down", 0)>>
    /\ pin["down"] = "High"

\* an output is at its active level
Asserted(p) == pin[p] = ActiveLevel(p)

\* this step starts a pulse
PulseBegins ==
    /\ pc' \in {"move_up", "move_down"}
    /\ <<pc, pulses>>' # <<pc, pulses>>

\* C13: in the running system the two outputs are never asserted together;
\* a pulse starts only when no output is asserted (so neither two pulses of
\* one actuator nor an up and a down pulse overlap); and a command is taken
\* up only when the previous operation has returned with both outputs idle:
\* while an operation is under way, whatever arrives, the operation and
\* the command being handled stay the same.
C13_OnePulseAtATime ==
    /\ [](~(Asserted("up") /\ Asserted("down")))
    /\ [][PulseBegins => ~Asserted("up") /\ ~Asserted("down")]_vars
    /\ [][(mpc = "receive" /\ mpc' = "handling") =>
             (pc = "idle" /\ ~Asserted("up") /\ ~Asserted("down"))]_vars
    /\ [][pc \notin {"idle", "new"} => (call' = call /\ cmd' = cmd)]_vars

\* C13 witness: a command waits on sven/command while the pulse of the
\* command being handled is in flight.
C13_Witness ==
    /\ mpc = "handling"
    /\ pending > 0
    /\ pc = "move_down"
    /\ Asserted("down")
    /\ ~Asserted("up")
    /\ cmd.command = "DownDuration"

\* the named positions whose Table A height is at most `tol` mm from h
Near(h, tol) ==
    {e \in {<<"Bottom", 622>>, <<"Armrest", 750>>, <<"AboveArmrest", 795>>,
            <<"Standing", 1140>>, <<"Top", 1274>>} :
        h - e[2] <= tol /\ e[2] - h <= tol}

\* C15 (as claimed): when move_up(d) or move_down(d) has returned, position is
\* the named position whose Table A height is within 5 mm of height_mm
\* (|height_mm - height| <= 5) if there is one, and Custom if there is none.
C15_WithinFive ==
    (Returned /\ call.name \in {"move_up", "move_down"}) =>
        IF Near(height_mm, 5) = {}
        THEN position = "Custom"
        ELSE \E e \in Near(height_mm, 5) : position = e[1]

\* a command has been taken from sven/command and its operation has returned
Handled == cmd # NoCommand /\ pc = "idle" /\ mpc \in {"handling", "receive"}

\* C16: no inbound command makes the controller run
\* move_to_position(Custom); and once a command has been handled,
\* position = Custom only at a height that get_position_from_height matches
\* to no Table A height.
C16_CustomNeverTarget ==
    /\ (cmd # NoCommand /\ call.name = "move_to_position") => call.pos # "Custom"
    /\ (Handled /\ position = "Custom") =>
           get_position_from_height(height_mm) = "Custom"

\* C17: once SvenState::new has returned, height_mm and position change only
\* in a step of a motion operation (the end of a move_up or move_down pulse,
\* the final assignments of move_to_position): no step of main's connection
\* or command loop writes them.
C17_OnlyMotionWrites ==
    [][(Constructed /\ <<height_mm, position>>' # <<height_mm, position>>) =>
          pc \in {"move_up", "move_down", "mtp_set"}]_vars

C19_InvalidCodeGoesToArmrest ==
    (mpc = "handling" /\ cmd.command = "Position" /\ cmd.value > 5) =>
        /\ call.name = "move_to_position"
        /\ call.pos = "Armrest"
        /\ pc = "idle" => (position = "Armrest" /\ height_mm = 750)

\* C19 witness: Position with value 6 has been handled from Standing, by
\* the one pulse move_to_position issues from Standing to Armrest.
C19_Witness ==
    /\ mpc = "handling"
    /\ pc = "idle"
    /\ cmd = [command |-> "Position", value |-> 6]
    /\ call.p0 = "Standing"
    /\ pulses = <<Pulse("down", 10800)>>
    /\ position = "Armrest"
    /\ height_mm = 750


\* C20: for any two durations d1 <= d2 the displacement get_duration_mm
\* credits to d1 is at most the one it credits to d2, across bucket 0, the
\* tabulated buckets and the extrapolated ones.
C20_LookupMonotone ==
    (res # <<>> /\ DurationLeq(arg[1], arg[2])) => res[1] <= res[2]

\* C20 witness: the last tabulated bucket and the first extrapolated one
\* have been looked up: 347 mm and 385 mm.
C20_Witness ==
    /\ arg = <<Ms(10999), Ms(11000)>>
    /\ res = <<347, 385>>

\* this step is an iteration of a relative move's loop that issues a pulse
RelPulseBegins == pc \in {"rel_up", "rel_down"} /\ PulseBegins

\* the pulse a step has just added to the log
LastPulse == pulses'[Len(pulses')]

\* C21: every pulse a relative move issues has the duration of a Table B
\* entry whose displacement is at most distance_left, and no entry with a
\* longer duration fits distance_left; and at every moment of the call the
\* durations of the pulses issued so far are non-increasing.
C21_LongestFitEachTime ==
    /\ [][RelPulseBegins =>
             /\ Len(pulses') = Len(pulses) + 1
             /\ \E i \in DOMAIN MS_TO_CM :
                    /\ LastPulse.d = Ms(MS_TO_CM[i][1])
                    /\ MS_TO_CM[i][2] <= distance_left
                    /\ \A j \in DOMAIN MS_TO_CM :
                           MS_TO_CM[j][2] <= distance_left =>
                               MS_TO_CM[j][1] <= MS_TO_CM[i][1]]_vars
    /\ [](RelCalled =>
             \A i, j \in DOMAIN pulses :
                 i < j => DurationLeq(pulses[j].d, pulses[i].d))

\* C21 witness: move_down_relative(356) has returned after a 10000 ms pulse
\* (347 mm) followed by a 1000 ms pulse (9 mm).
C21_Witness ==
    /\ Returned
    /\ call.name = "move_down_relative"
    /\ call.mm = 356
    /\ pulses = <<Pulse("down", 10000), Pulse("down", 1000)>>

\* C22: a relative move terminates. Each iteration that issued a pulse takes
\* at least 9 mm off distance_left; an iteration that finds less than 9 mm
\* left (no Table B entry fits) returns without a pulse; a call issues at
\* most delta_mm / 9 pulses; and every relative move under way returns.
C22_RelativeTerminates ==
    /\ [][(pc \in {"rel_up_wait", "rel_down_wait"}) =>
             (distance_left' + 9 <= distance_left)]_vars
    /\ [][(pc \in {"rel_up", "rel_down"} /\ distance_left < 9) =>
             (pc' = "idle" /\ pulses' = pulses)]_vars
    /\ [](RelCalled => 9 * Len(pulses) <= RelDelta)
    /\ (RelCalled /\ pc # "idle") ~> (pc = "idle")

\* C22 witness: move_down_relative(17) has returned after its one pulse, the
\* second iteration having found 8 mm left, which no entry fits.
C22_Witness ==
    /\ Returned
    /\ call.name = "move_down_relative"
    /\ call.mm = 17
    /\ Len(pulses) = 1
    /\ distance_left = 8

\* the pulses a relative move in direction `dir` issues for `left` mm, by
\* Table B alone
RECURSIVE rel_pulses(_, _)
rel_pulses(dir, left) ==
    LET fits == {i \in DOMAIN MS_TO_CM : MS_TO_CM[i][2] <= left}
        i == Greatest(fits)
    IN  IF fits = {} THEN <<>>
        ELSE <<Pulse(dir, MS_TO_CM[i][1])>>
                 \o rel_pulses(dir, left - MS_TO_CM[i][2])

\* C23: the pulses of a relative move are those Table B gives for its
\* direction and delta_mm, whatever height_mm was at the call and is during
\* it: at every moment the pulses issued so far are the first ones of that
\* sequence, and at the return they are the whole of it.
C23_PulsesFromDeltaAlone ==
    RelCalled =>
        LET all == rel_pulses(RelDir, RelDelta)
        IN  /\ Len(pulses) <= Len(all)
            /\ pulses = SubSeq(all, 1, Len(pulses))
            /\ Returned => pulses = all

\* C23 witness: move_up_relative(356) from Standing / 1140 has returned; its
\* 10000 ms pulse already took height_mm to 1274, and the 1000 ms pulse was
\* issued all the same.
C23_Witness ==
    /\ Returned
    /\ call.name = "move_up_relative"
    /\ call.mm = 356
    /\ call.h0 = 1140
    /\ height_mm = 1274
    /\ pulses = <<Pulse("up", 10000), Pulse("up", 1000)>>

\* this step takes a message from sven/command that is not handled as a
\* command (and is not the loss of the connection)
Dropped ==
    /\ mpc = "receive"
    /\ pending' < pending
    /\ mpc' \notin {"handling", "connect"}

\* C24: a payload that does not decode to a command is skipped: the step
\* that takes it leaves the controller (height_mm, position, outputs, pulses)
\* as it was and main waiting for the next message, and main never stops.
C24_MalformedIsSkipped ==
    /\ [][Dropped => (mpc' = "receive" /\ UNCHANGED ctl)]_vars
    /\ [](mpc # "panicked")

\* C25: a move_up(d) or move_down(d) with d < 1000 ms issues its one pulse of
\* d ms on its own actuator (the output is asserted while the pulse is in
\* flight), and at every moment of the call, its return included, height_mm
\* is what it was when the call was made.
C25_SubSecondCreditsNothing ==
    \A dir \in {"up", "down"} :
        (call.name = (IF dir = "up" THEN "move_up" ELSE "move_down")
             /\ call.d.s = 0) =>
            /\ pulses = <<[dir |-> dir, d |-> call.d]>>
            /\ pc # "idle" => Asserted(dir)
            /\ height_mm = call.h0

\* C25 witness: move_up(999) has returned from a height below the upper
\* limit, height_mm being what it was.
C25_Witness ==
    /\ Returned
    /\ call.name = "move_up"
    /\ call.d = Ms(999)
    /\ pulses = <<Pulse("up", 999)>>
    /\ call.h0 < MAX_HEIGHT_MM
    /\ height_mm = call.h0

====
